---- MODULE Spec2Model ----
(***************************************************************************)
(* A model of flask_app/static/js/main.js: the frame-processing scheduler  *)
(* (startSession, stopSession, startProcessing, captureAndProcess) and the *)
(* highlight-marker smoother (updateHighlightJoints).                      *)
(*                                                                         *)
(* Numbers.  Normalized coordinates are JavaScript doubles in [0,1]; here  *)
(* a coordinate is the integer c that stands for c / CoordDen, and the     *)
(* arithmetic is the exact real arithmetic of the source expressions (the  *)
(* rounding of IEEE doubles is not modelled).  A pixel value x * width is  *)
(* kept as the integer c * width, that is, in units of 1/CoordDen pixel.   *)
(* An update whose blend 0.3*new + 0.7*prev is not a multiple of           *)
(* 1/CoordDen is outside the model's grid and is not explored.             *)
(***************************************************************************)
EXTENDS Integers, Sequences, FiniteSets, TLC

VARIABLES
    isStreaming,          \* main.js:6
    animationFrameId,     \* main.js:8   0 stands for null
    fps,                  \* main.js:9
    frameCount,           \* main.js:10
    sinceLastTime,        \* (the clock when last read) - lastTime (main.js:11,154), in ms
    isProcessingFrame,    \* main.js:12
    sessionActive,        \* main.js:13
    lastHighlightJoints,  \* main.js:14
    poseStatus,           \* poseStatus.textContent (main.js:19), the strings concatenated
    canvasSize,           \* <<canvas.width, canvas.height>> (main.js:82-83)
    srcObject,            \* video.srcObject is a stream (main.js:78,114)
    rafPending,           \* handles of the animation-frame callbacks not yet run (see Canon)
    metadataListeners,    \* number of 'loadedmetadata' listeners on video (main.js:81)
    metadataPending,      \* the media element will fire 'loadedmetadata'
    startAwaitCamera,     \* startSession calls suspended at main.js:70
    startAwaitFetch,      \* startSession calls suspended at main.js:88
    stopAwaitFetch,       \* stopSession calls suspended at main.js:126-131
    inFlight,             \* /process_frame requests issued and not yet settled
    lastOp,               \* history: the step taken last and its input
    preJoints,            \* history: lastHighlightJoints before the last step
    updArg,               \* history: the argument of updateHighlightJoints in the last step
    tickLog               \* history: the ticks and the time of the fps windows (see LogTick)

vars == << isStreaming, animationFrameId, fps, frameCount, sinceLastTime,
           isProcessingFrame, sessionActive, lastHighlightJoints, poseStatus,
           canvasSize, srcObject, rafPending, metadataListeners,
           metadataPending, startAwaitCamera, startAwaitFetch, stopAwaitFetch,
           inFlight, lastOp, preJoints, updArg, tickLog >>

-----------------------------------------------------------------------------
(* Bounds of the model *)

\* most markers in one highlight_joints sequence
MaxJoints == 2
\* most animation-frame callbacks pending at once
MaxRafPending == 2
\* most 'loadedmetadata' listeners ever registered (one per camera grant)
MaxListeners == 2
\* most startSession calls suspended at once
MaxStartCalls == 2
\* most stopSession calls suspended at once
MaxStopCalls == 1
\* most ticks counted inside one fps window
MaxFrameCount == 1

-----------------------------------------------------------------------------
(* Program constants *)

\* the integer that stands for the normalized coordinate 1.0
CoordDen == 100
\* alpha = 0.3 = AlphaNum / AlphaDen (main.js:266)
AlphaNum == 3
AlphaDen == 10
\* main.js:267
snapRadiusPx == 25
\* main.js:155
FpsWindowMs == 1000
\* main.js:9
InitialFps == 30

\* the time, in ms, between two readings of Date.now(): every reading at
\* least a second after the one before (a throttled display) ...
SlowClock == {FpsWindowMs}
\* ... or readings at any pace
AnyClock == {0, FpsWindowMs \div 2, FpsWindowMs}

Names == {"left_knee", "right_knee"}

\* surface sizes video.videoWidth x video.videoHeight may give the canvas
Dims == { <<250, 250>>, <<150, 200>>, <<50, 50>> }
\* the size the camera of the scheduler's runs gives it
SysDims == { <<250, 250>> }

Min(S) == CHOOSE m \in S : \A n \in S : m <= n

Joint(n, x, y) == [name |-> n, x |-> x, y |-> y]

\* sequences of at most MaxJoints markers, names pairwise distinct (a
\* HighlightMarker's name is the unique key of a landmark), coordinates from
\* xs and ys
JointLists(xs, ys) ==
    LET js == {Joint(n, x, y) : n \in Names, x \in xs, y \in ys}
    IN  UNION { { s \in [1..k -> js] :
                    \A i, j \in 1..k : i # j => s[i].name # s[j].name }
                : k \in 0..MaxJoints }

-----------------------------------------------------------------------------
(* updateHighlightJoints, main.js:254-302 *)

NoPrev == [name |-> "none", x |-> -1, y |-> -1]

FindPrevAssigns(prevJoints, name) ==
    IF Len(prevJoints) = 0 THEN NoPrev
    ELSE [prevJoints[1] EXCEPT !.name = name]

\* lastHighlightJoints.find(p => p.name === joint.name): the first match
FindPrev(prevJoints, name) ==
    LET idx == {i \in 1..Len(prevJoints) : prevJoints[i].name = name}
    IN  IF idx = {} THEN NoPrev ELSE prevJoints[Min(idx)]

\* dx*dx + dy*dy for the pixel offsets of joint from prev on a w x h surface,
\* in units of (1/CoordDen pixel)^2
DistSq(joint, prev, w, h) ==
    LET prevXpx == prev.x * w
        prevYpx == prev.y * h
        newXpx  == joint.x * w
        newYpx  == joint.y * h
        dx == newXpx - prevXpx
        dy == newYpx - prevYpx
    IN  dx * dx + dy * dy

\* dist < snapRadiusPx, with dist = Math.sqrt(dx*dx + dy*dy) >= 0
WithinSnapWrong(joint, prev, w, h) ==
    DistSq(joint, prev, w, h) <= (snapRadiusPx * CoordDen) * (snapRadiusPx * CoordDen)

WithinSnap(joint, prev, w, h) ==
    DistSq(joint, prev, w, h) < (snapRadiusPx * CoordDen) * (snapRadiusPx * CoordDen)

\* alpha * a + (1 - alpha) * b, times AlphaDen
BlendTimesDen(a, b) == AlphaNum * a + (AlphaDen - AlphaNum) * b

SmoothedKeepsPrev(a, b) == b

SmoothedOvershoots(a, b) == (AlphaNum * a + AlphaDen * b) \div AlphaDen

SmoothedWrong(a, b) == BlendTimesDen(b, a) \div AlphaDen

\* smoothedX / smoothedY (main.js:291-292)
Smoothed(a, b) == BlendTimesDen(a, b) \div AlphaDen

SmoothJointNoAdopt(joint, prevJoints, w, h) ==
    LET found == FindPrev(prevJoints, joint.name)
        prev  == IF found = NoPrev THEN Joint(joint.name, 0, 0) ELSE found
    IN  IF WithinSnap(joint, prev, w, h) THEN prev
        ELSE [name |-> joint.name,
              x |-> Smoothed(joint.x, prev.x),
              y |-> Smoothed(joint.y, prev.y)]

\* the callback of newJoints.map (main.js:269-299)
SmoothJoint(joint, prevJoints, w, h) ==
    LET prev == FindPrev(prevJoints, joint.name)
    IN  IF prev = NoPrev THEN joint
        ELSE IF WithinSnap(joint, prev, w, h) THEN prev
        ELSE [name |-> joint.name,
              x |-> Smoothed(joint.x, prev.x),
              y |-> Smoothed(joint.y, prev.y)]

\* the value assigned to lastHighlightJoints.  canvas and ctx are set at
\* DOMContentLoaded (main.js:31-33), before any handler runs, so the branch
\* of main.js:255-258 is not taken.
updateKeepsOld(newJoints, prevJoints, w, h) ==
    IF Len(newJoints) = 0 THEN prevJoints
    ELSE [i \in 1..Len(newJoints) |-> SmoothJoint(newJoints[i], prevJoints, w, h)]

updateAppends(newJoints, prevJoints, w, h) ==
    IF Len(newJoints) = 0 THEN << >>
    ELSE prevJoints \o
         [i \in 1..Len(newJoints) |-> SmoothJoint(newJoints[i], prevJoints, w, h)]

updateCarriesOver(newJoints, prevJoints, w, h) ==
    IF Len(newJoints) = 0 THEN << >>
    ELSE [i \in 1..Len(newJoints) |-> SmoothJoint(newJoints[i], prevJoints, w, h)]
         \o SelectSeq(prevJoints,
                      LAMBDA p : \A i \in 1..Len(newJoints) :
                                     newJoints[i].name # p.name)

updateHighlightJoints(newJoints, prevJoints, w, h) ==
    IF Len(newJoints) = 0 THEN << >>
    ELSE [i \in 1..Len(newJoints) |-> SmoothJoint(newJoints[i], prevJoints, w, h)]

\* the blends of this update stay on the model's grid
OnGrid(newJoints, prevJoints, w, h) ==
    \A i \in 1..Len(newJoints) :
        LET joint == newJoints[i]
            prev  == FindPrev(prevJoints, joint.name)
        IN  (prev # NoPrev /\ ~WithinSnap(joint, prev, w, h)) =>
                /\ BlendTimesDen(joint.x, prev.x) % AlphaDen = 0
                /\ BlendTimesDen(joint.y, prev.y) % AlphaDen = 0

-----------------------------------------------------------------------------
(* The scheduler: startProcessing and captureAndProcess, main.js:149-217,  *)
(* as functions of the part of the state they read and write.  The field   *)
(* thrown says that an exception is propagating out of the call.           *)

SchedState ==
    [isStreaming |-> isStreaming, isProcessingFrame |-> isProcessingFrame,
     frameCount |-> frameCount, fps |-> fps, sinceLastTime |-> sinceLastTime,
     animationFrameId |-> animationFrameId, rafPending |-> rafPending,
     inFlight |-> inFlight, lastHighlightJoints |-> lastHighlightJoints,
     thrown |-> FALSE]

\* a handle no pending callback and no variable holds (the browser never
\* gives a handle twice; only the handles still held anywhere can tell)
FreshHandle(s) ==
    Min({h \in 1..(Cardinality(s.rafPending) + 2) :
            h \notin s.rafPending /\ h # s.animationFrameId})

\* animationFrameId = requestAnimationFrame(startProcessing), main.js:167
requestAnimationFrame(s) ==
    LET h == FreshHandle(s)
    IN  [s EXCEPT !.rafPending = @ \cup {h}, !.animationFrameId = h]

\* the body of the POST /process_frame request, main.js:192-196: the fps
\* value, and the markers drawn on the frame it carries (main.js:176-184)
FrameRequest(s) == [fps |-> s.fps, drawn |-> s.lastHighlightJoints]

captureAndProcessNoGuard(s, drawOk) ==
    IF ~drawOk
    THEN [s EXCEPT !.isProcessingFrame = TRUE, !.thrown = TRUE]
    ELSE [s EXCEPT !.isProcessingFrame = TRUE,
                   !.inFlight = Append(@, FrameRequest(s))]

captureAndProcessNoFlag(s, drawOk) ==
    IF ~s.isStreaming THEN s
    ELSE IF ~drawOk
    THEN [s EXCEPT !.thrown = TRUE]
    ELSE [s EXCEPT !.inFlight = Append(@, FrameRequest(s))]

\* main.js:170-197 up to the fetch call.  drawOk = FALSE: ctx.drawImage,
\* drawHighlightJoints or canvas.toDataURL throws (main.js:176-184); the
\* flag is already set and no request is issued.
captureAndProcess(s, drawOk) ==
    IF s.isProcessingFrame \/ ~s.isStreaming THEN s
    ELSE IF ~drawOk
    THEN [s EXCEPT !.isProcessingFrame = TRUE, !.thrown = TRUE]
    ELSE [s EXCEPT !.isProcessingFrame = TRUE,
                   !.inFlight = Append(@, FrameRequest(s))]

CountFrameStrict(s, dt) ==
    LET s1 == [s EXCEPT !.frameCount = @ + 1]
        elapsed == s.sinceLastTime + dt
    IN  IF elapsed > FpsWindowMs
        THEN [s1 EXCEPT !.fps = s1.frameCount, !.frameCount = 0,
                        !.sinceLastTime = 0]
        ELSE [s1 EXCEPT !.sinceLastTime = elapsed]

\* main.js:153-159.  dt: the time since the clock was last read, so that
\* currentTime - lastTime = s.sinceLastTime + dt.
CountFrame(s, dt) ==
    LET s1 == [s EXCEPT !.frameCount = @ + 1]
        elapsed == s.sinceLastTime + dt
    IN  IF elapsed >= FpsWindowMs
        THEN [s1 EXCEPT !.fps = s1.frameCount, !.frameCount = 0,
                        !.sinceLastTime = 0]
        ELSE [s1 EXCEPT !.sinceLastTime = elapsed]

startProcessingNoStreamGuard(s, dt, drawOk) ==
    LET s2 == CountFrame(s, dt)
        s3 == IF ~s2.isProcessingFrame
              THEN captureAndProcess(s2, drawOk) ELSE s2
    IN  IF s3.thrown THEN s3 ELSE requestAnimationFrame(s3)

startProcessingAlwaysCaptures(s, dt, drawOk) ==
    IF ~s.isStreaming THEN s
    ELSE LET s2 == CountFrame(s, dt)
             s3 == captureAndProcessNoGuard(s2, drawOk)
         IN  IF s3.thrown THEN s3 ELSE requestAnimationFrame(s3)

\* main.js:149-168
startProcessing(s, dt, drawOk) ==
    IF ~s.isStreaming THEN s
    ELSE LET s2 == CountFrame(s, dt)
             s3 == IF ~s2.isProcessingFrame
                   THEN captureAndProcess(s2, drawOk) ELSE s2
         IN  IF s3.thrown THEN s3 ELSE requestAnimationFrame(s3)

\* the 'loadedmetadata' listeners run one after the other, each calling
\* startProcessing (main.js:81-85); an exception in one is reported and the
\* next still runs
RECURSIVE RunListeners(_, _, _, _)
RunListeners(n, s, dt, drawOk) ==
    IF n = 0 THEN s
    ELSE RunListeners(n - 1,
                      startProcessing([s EXCEPT !.thrown = FALSE], dt, drawOk),
                      0, drawOk)

\* the outcomes of drawing and encoding the frame that a call of
\* startProcessing in state s can meet: none but success when it captures
\* nothing
DrawOutcomes(s) ==
    IF s.isStreaming /\ ~s.isProcessingFrame THEN BOOLEAN ELSE {TRUE}

\* what a call of startProcessing did, for the history variable
TickKind(s, t) ==
    IF ~s.isStreaming THEN "tickIdle"
    ELSE IF t.thrown THEN "tickThrow"
    ELSE IF Len(t.inFlight) > Len(s.inFlight) THEN "tickCapture"
    ELSE "tickSkip"

\* Handles are opaque: the program only stores one and hands it back to
\* cancelAnimationFrame.  After every step they are renamed, keeping which
\* callback animationFrameId names: the n pending callbacks get 1..n, the one
\* animationFrameId names gets n, a handle that names no pending callback
\* becomes n + 1, and null stays 0.
Canon(pending, id) ==
    LET n == Cardinality(pending)
    IN  << 1..n, IF id = 0 THEN 0 ELSE IF id \in pending THEN n ELSE n + 1 >>

SetSched(t) ==
    /\ isProcessingFrame' = t.isProcessingFrame
    /\ frameCount' = t.frameCount
    /\ fps' = t.fps
    /\ sinceLastTime' = t.sinceLastTime
    /\ animationFrameId' = Canon(t.rafPending, t.animationFrameId)[2]
    /\ rafPending' = Canon(t.rafPending, t.animationFrameId)[1]
    /\ inFlight' = t.inFlight

InBounds(t) ==
    /\ t.frameCount <= MaxFrameCount
    /\ Cardinality(t.rafPending) <= MaxRafPending

\* The fps windows as main.js:153-159 means them, kept beside the program's
\* own counters: a window opens when the script is loaded (main.js:11) and
\* whenever the one before it closes, and it closes at the first tick that
\* reads the clock FpsWindowMs or more after it opened.  ticks: the ticks
\* counted in the open window; elapsed: the time from its opening to the last
\* clock reading; completed: the ticks counted in the window that closed last,
\* the closing tick among them, and 0 as long as none has closed.
NoTicks == [ticks |-> 0, elapsed |-> 0, completed |-> 0]

LogTick(g, dt) ==
    IF g.elapsed + dt >= FpsWindowMs
    THEN [ticks |-> 0, elapsed |-> 0, completed |-> g.ticks + 1]
    ELSE [ticks |-> g.ticks + 1, elapsed |-> g.elapsed + dt,
          completed |-> g.completed]

\* the ticks of n listeners run in a row: the clock advances before the first
RECURSIVE LogTicks(_, _, _)
LogTicks(n, g, dt) ==
    IF n = 0 THEN g ELSE LogTicks(n - 1, LogTick(g, dt), 0)

NoUpdate == /\ preJoints' = lastHighlightJoints
            /\ updArg' = << >>
            /\ UNCHANGED lastHighlightJoints

-----------------------------------------------------------------------------
(* Session start and stop, main.js:65-147 *)

Init ==
    /\ isStreaming = FALSE
    /\ animationFrameId = 0
    /\ fps = InitialFps
    /\ frameCount = 0
    /\ sinceLastTime = 0
    /\ isProcessingFrame = FALSE
    /\ sessionActive = FALSE
    /\ lastHighlightJoints = << >>
    /\ poseStatus = << >>
    /\ canvasSize \in SysDims
    /\ srcObject = FALSE
    /\ rafPending = {}
    /\ metadataListeners = 0
    /\ metadataPending = FALSE
    /\ startAwaitCamera = 0
    /\ startAwaitFetch = 0
    /\ stopAwaitFetch = 0
    /\ inFlight = << >>
    /\ lastOp = "init"
    /\ preJoints = << >>
    /\ updArg = << >>
    /\ tickLog = NoTicks

\* a click on the start button: main.js:65-70, up to the first await
StartSessionClick ==
    /\ ~sessionActive
    /\ startAwaitCamera + startAwaitFetch < MaxStartCalls
    /\ metadataListeners + startAwaitCamera < MaxListeners
    /\ startAwaitCamera' = startAwaitCamera + 1
    /\ lastOp' = "startClick"
    /\ NoUpdate
    /\ UNCHANGED tickLog
    /\ UNCHANGED << isStreaming, animationFrameId, fps, frameCount,
                    sinceLastTime, isProcessingFrame, sessionActive,
                    poseStatus, canvasSize, srcObject, rafPending,
                    metadataListeners, metadataPending, startAwaitFetch,
                    stopAwaitFetch, inFlight >>

\* getUserMedia resolves: main.js:78-88, up to the second await
CameraGranted ==
    /\ startAwaitCamera > 0
    /\ srcObject' = TRUE
    /\ isStreaming' = TRUE
    /\ metadataListeners' = metadataListeners + 1
    /\ metadataPending' = TRUE
    /\ startAwaitCamera' = startAwaitCamera - 1
    /\ startAwaitFetch' = startAwaitFetch + 1
    /\ lastOp' = "cameraGranted"
    /\ NoUpdate
    /\ UNCHANGED tickLog
    /\ UNCHANGED << animationFrameId, fps, frameCount, sinceLastTime,
                    isProcessingFrame, sessionActive, poseStatus, canvasSize,
                    rafPending, stopAwaitFetch, inFlight >>

\* getUserMedia rejects: the catch block, main.js:100-104
CameraDenied ==
    /\ startAwaitCamera > 0
    /\ startAwaitCamera' = startAwaitCamera - 1
    /\ poseStatus' = << "Error: Could not start session" >>
    /\ lastOp' = "cameraDenied"
    /\ NoUpdate
    /\ UNCHANGED tickLog
    /\ UNCHANGED << isStreaming, animationFrameId, fps, frameCount,
                    sinceLastTime, isProcessingFrame, sessionActive,
                    canvasSize, srcObject, rafPending, metadataListeners,
                    metadataPending, startAwaitFetch, stopAwaitFetch,
                    inFlight >>

\* fetch('/start_session') resolves (whatever the HTTP status): main.js:94-98
StartFetchResolved ==
    /\ startAwaitFetch > 0
    /\ startAwaitFetch' = startAwaitFetch - 1
    /\ sessionActive' = TRUE
    /\ poseStatus' = << "Session started" >>
    /\ lastOp' = "startResolved"
    /\ NoUpdate
    /\ UNCHANGED tickLog
    /\ UNCHANGED << isStreaming, animationFrameId, fps, frameCount,
                    sinceLastTime, isProcessingFrame, canvasSize, srcObject,
                    rafPending, metadataListeners, metadataPending,
                    startAwaitCamera, stopAwaitFetch, inFlight >>

\* fetch('/start_session') rejects: the catch block, main.js:100-104
StartFetchRejected ==
    /\ startAwaitFetch > 0
    /\ startAwaitFetch' = startAwaitFetch - 1
    /\ poseStatus' = << "Error: Could not start session" >>
    /\ lastOp' = "startRejected"
    /\ NoUpdate
    /\ UNCHANGED tickLog
    /\ UNCHANGED << isStreaming, animationFrameId, fps, frameCount,
                    sinceLastTime, isProcessingFrame, sessionActive,
                    canvasSize, srcObject, rafPending, metadataListeners,
                    metadataPending, startAwaitCamera, stopAwaitFetch,
                    inFlight >>

\* a click on the stop button: main.js:107-126, up to the await.  Setting
\* video.srcObject to null aborts the load, so no 'loadedmetadata' follows.
StopSessionClick ==
    /\ sessionActive
    /\ stopAwaitFetch < MaxStopCalls
    /\ srcObject' = FALSE
    /\ metadataPending' = IF srcObject THEN FALSE ELSE metadataPending
    /\ IF animationFrameId # 0
       THEN /\ rafPending' = Canon(rafPending \ {animationFrameId}, 0)[1]
            /\ animationFrameId' = 0
       ELSE UNCHANGED << rafPending, animationFrameId >>
    /\ isStreaming' = FALSE
    /\ stopAwaitFetch' = stopAwaitFetch + 1
    /\ lastOp' = "stopClick"
    /\ NoUpdate
    /\ UNCHANGED tickLog
    /\ UNCHANGED << fps, frameCount, sinceLastTime, isProcessingFrame,
                    sessionActive, poseStatus, canvasSize, metadataListeners,
                    startAwaitCamera, startAwaitFetch, inFlight >>

\* fetch('/end_session') settles; resolved or rejected, main.js:137-146 runs
StopFetchSettled ==
    /\ stopAwaitFetch > 0
    /\ stopAwaitFetch' = stopAwaitFetch - 1
    /\ sessionActive' = FALSE
    /\ poseStatus' = << "Session stopped" >>
    /\ lastOp' = "stopSettled"
    /\ NoUpdate
    /\ UNCHANGED tickLog
    /\ UNCHANGED << isStreaming, animationFrameId, fps, frameCount,
                    sinceLastTime, isProcessingFrame, canvasSize, srcObject,
                    rafPending, metadataListeners, metadataPending,
                    startAwaitCamera, startAwaitFetch, inFlight >>

-----------------------------------------------------------------------------
(* The recurring tick *)

\* the video fires 'loadedmetadata': every listener registered so far sets
\* the canvas size and calls startProcessing (main.js:81-85)
LoadedMetadata(clock) ==
    /\ metadataPending
    /\ \E d \in SysDims, dt \in clock, drawOk \in DrawOutcomes(SchedState) :
         LET t == RunListeners(metadataListeners, SchedState, dt, drawOk)
         IN  /\ InBounds(t)
             /\ canvasSize' = d
             /\ SetSched(t)
             /\ lastOp' = "loadedmetadata"
             /\ tickLog' = IF isStreaming
                           THEN LogTicks(metadataListeners, tickLog, dt)
                           ELSE tickLog
    /\ metadataPending' = FALSE
    /\ NoUpdate
    /\ UNCHANGED << isStreaming, sessionActive, poseStatus, srcObject,
                    metadataListeners, startAwaitCamera, startAwaitFetch,
                    stopAwaitFetch >>

\* the browser runs the animation-frame callback with handle h: one call of
\* startProcessing
Tick(clock) ==
    \E h \in rafPending, dt \in clock, drawOk \in DrawOutcomes(SchedState) :
        LET s == [SchedState EXCEPT !.rafPending = @ \ {h}]
            t == startProcessing(s, dt, drawOk)
        IN  /\ InBounds(t)
            /\ SetSched(t)
            /\ lastOp' = TickKind(s, t)
            /\ tickLog' = IF isStreaming THEN LogTick(tickLog, dt) ELSE tickLog
            /\ NoUpdate
            /\ UNCHANGED << isStreaming, sessionActive, poseStatus,
                            canvasSize, srcObject, metadataListeners,
                            metadataPending, startAwaitCamera,
                            startAwaitFetch, stopAwaitFetch >>

-----------------------------------------------------------------------------
(* The settlement of a /process_frame request, main.js:198-216 *)

\* the markers the inference service sends in the scheduler's runs: none, the
\* left knee at x = 0 or 0.10, or the right knee at x = 0 before the left
\* knee
SysInX == {0, 10}
SysInY == {0}
SysJointLists ==
    { l \in JointLists(SysInX, SysInY) :
        /\ \A i \in 1..Len(l) : l[i].name = "right_knee" => (i = 1 /\ l[i].x = 0)
        /\ \E i \in 1..Len(l) : l[i].name = "left_knee" }
    \cup { << >> }

\* a decoded response body.  hasError / hasJoints: the field is present;
\* pose_text "" also stands for an absent pose_text (textContent = undefined
\* shows the empty string).
Resp(he, e, p, hj, js) ==
    [hasError |-> he, error |-> e, pose_text |-> p,
     hasJoints |-> hj, highlight_joints |-> js]

JointFields ==
    { << FALSE, << >> >> } \cup { << TRUE, l >> : l \in SysJointLists }

\* the bodies the service sends: a result, or an error (an empty or a
\* non-empty message) with or without markers beside it
Responses ==
    { Resp(FALSE, "", "Tree Pose", f[1], f[2]) : f \in JointFields }
    \cup
    { Resp(TRUE, e, "", f[1], f[2]) :
        e \in {"", "model failure"},
        f \in { g \in JointFields : Len(g[2]) # 1 } }

\* if (data.error): an absent field and the empty string are both falsy
ErrorIsTruthy(data) == data.hasError /\ data.error # ""

\* data.highlight_joints || []
JointsOrEmpty(data) ==
    IF data.hasJoints THEN data.highlight_joints ELSE << >>

RemoveAt(q, i) == [k \in 1..(Len(q) - 1) |-> IF k < i THEN q[k] ELSE q[k + 1]]

FinallyKeepsFlag(failed) == IF failed THEN isProcessingFrame ELSE FALSE

\* the value .finally gives isProcessingFrame (main.js:214-216); failed says
\* that the .catch handler ran before it
Finally(failed) == FALSE

\* fetch rejects, or response.json() rejects: .catch then .finally
SettleFailure(i, kind) ==
    /\ inFlight' = RemoveAt(inFlight, i)
    /\ isProcessingFrame' = Finally(TRUE)
    /\ lastOp' = kind
    /\ NoUpdate
    /\ UNCHANGED tickLog
    /\ UNCHANGED << isStreaming, animationFrameId, fps, frameCount,
                    sinceLastTime, sessionActive, poseStatus, canvasSize,
                    srcObject, rafPending, metadataListeners, metadataPending,
                    startAwaitCamera, startAwaitFetch, stopAwaitFetch >>

\* the body decodes to data: the .then handler of main.js:199-210, then
\* .finally
SettleData(i, data) ==
    /\ inFlight' = RemoveAt(inFlight, i)
    /\ isProcessingFrame' = Finally(FALSE)
    /\ preJoints' = lastHighlightJoints
    /\ IF ErrorIsTruthy(data)
       THEN /\ poseStatus' = << "Error: ", data.error >>
            /\ lastOp' = "settleErrorField"
            /\ updArg' = << >>
            /\ UNCHANGED lastHighlightJoints
       ELSE /\ OnGrid(JointsOrEmpty(data), lastHighlightJoints,
                      canvasSize[1], canvasSize[2])
            /\ poseStatus' = << data.pose_text >>
            /\ updArg' = JointsOrEmpty(data)
            /\ lastHighlightJoints' =
                   updateHighlightJoints(JointsOrEmpty(data),
                       lastHighlightJoints, canvasSize[1], canvasSize[2])
            /\ lastOp' = IF data.hasError THEN "settleErrorField"
                         ELSE "settleOk"
    /\ UNCHANGED << isStreaming, animationFrameId, fps, frameCount,
                    sinceLastTime, sessionActive, canvasSize, srcObject,
                    rafPending, metadataListeners, metadataPending,
                    startAwaitCamera, startAwaitFetch, stopAwaitFetch,
                    tickLog >>

SettleWith(responses) ==
    \E i \in 1..Len(inFlight) :
        \/ SettleFailure(i, "settleTransport")
        \/ SettleFailure(i, "settleBadJson")
        \/ \E data \in responses : SettleData(i, data)

Settle == SettleWith(Responses)

Next ==
    \/ StartSessionClick
    \/ CameraGranted
    \/ CameraDenied
    \/ StartFetchResolved
    \/ StartFetchRejected
    \/ StopSessionClick
    \/ StopFetchSettled
    \/ LoadedMetadata(SlowClock)
    \/ Tick(SlowClock)
    \/ Settle

Spec == Init /\ [][Next]_vars

-----------------------------------------------------------------------------
(* The frame counter: the same program with a clock that advances by any    *)
(* amount between two readings, and responses that carry no markers.        *)

PlainResponses == { data \in Responses : ~data.hasJoints }

NextFps ==
    \/ StartSessionClick
    \/ CameraGranted
    \/ CameraDenied
    \/ StartFetchResolved
    \/ StartFetchRejected
    \/ StopSessionClick
    \/ StopFetchSettled
    \/ LoadedMetadata(AnyClock)
    \/ Tick(AnyClock)
    \/ SettleWith(PlainResponses)

SpecFps == Init /\ [][NextFps]_vars

-----------------------------------------------------------------------------
(* The smoother alone: updateHighlightJoints applied, again and again, to   *)
(* one marker sequence, from any persisted state, on a surface whose size   *)
(* may change between two updates.  In these runs updArg holds, from the    *)
(* start, the argument of every update.                                     *)

\* coordinates of the persisted markers at the start, and of the new markers
StoredX == {0, 3, 10, CoordDen}
StoredY == {0, 10}
InX == {0, 10, CoordDen}
InY == {0, 10}

schedVars == << isStreaming, animationFrameId, fps, frameCount, sinceLastTime,
                isProcessingFrame, sessionActive, poseStatus, srcObject,
                rafPending, metadataListeners, metadataPending,
                startAwaitCamera, startAwaitFetch, stopAwaitFetch, inFlight,
                tickLog >>

InitSmoother ==
    /\ isStreaming = FALSE
    /\ animationFrameId = 0
    /\ fps = InitialFps
    /\ frameCount = 0
    /\ sinceLastTime = 0
    /\ isProcessingFrame = FALSE
    /\ sessionActive = FALSE
    /\ poseStatus = << >>
    /\ srcObject = FALSE
    /\ rafPending = {}
    /\ metadataListeners = 0
    /\ metadataPending = FALSE
    /\ startAwaitCamera = 0
    /\ startAwaitFetch = 0
    /\ stopAwaitFetch = 0
    /\ inFlight = << >>
    /\ tickLog = NoTicks
    /\ canvasSize \in Dims
    /\ lastHighlightJoints \in JointLists(StoredX, StoredY)
    /\ updArg \in JointLists(InX, InY)
    /\ preJoints = lastHighlightJoints
    /\ lastOp = "init"

ApplyUpdate ==
    /\ OnGrid(updArg, lastHighlightJoints, canvasSize[1], canvasSize[2])
    /\ lastHighlightJoints' =
           updateHighlightJoints(updArg, lastHighlightJoints,
                                 canvasSize[1], canvasSize[2])
    /\ preJoints' = lastHighlightJoints
    /\ lastOp' = "update"
    /\ UNCHANGED << schedVars, canvasSize, updArg >>

\* canvas.width and canvas.height change (main.js:82-83)
Resize ==
    /\ \E d \in Dims \ {canvasSize} : canvasSize' = d
    /\ preJoints' = lastHighlightJoints
    /\ lastOp' = "resize"
    /\ UNCHANGED << schedVars, lastHighlightJoints, updArg >>

NextSmoother == ApplyUpdate \/ Resize

SpecSmoother == InitSmoother /\ [][NextSmoother]_vars

\* the same marker sequence applied again and again on a surface that keeps
\* its size, for as long as the result stays on the grid
SpecConverge ==
    InitSmoother /\ [][ApplyUpdate]_vars /\ WF_vars(ApplyUpdate)

-----------------------------------------------------------------------------
(* Properties *)

TickOps == {"tickIdle", "tickSkip", "tickCapture", "tickThrow"}
SettleOps == {"settleTransport", "settleBadJson", "settleErrorField", "settleOk"}
FailedSettleOps == {"settleTransport", "settleBadJson", "settleErrorField"}

\* the square of the pixel distance between markers a and b on a surface of
\* the given size, in units of (1/CoordDen pixel)^2
PixelDistSq(a, b, size) ==
    ((a.x - b.x) * size[1]) * ((a.x - b.x) * size[1])
    + ((a.y - b.y) * size[2]) * ((a.y - b.y) * size[2])

\* the square of the snap radius, in the same units
SnapSq == (snapRadiusPx * CoordDen) * (snapRadiusPx * CoordDen)

\* the persisted state holds the marker called name, at (x, y)
StoredAt(name, x, y) ==
    /\ \E k \in 1..Len(lastHighlightJoints) : lastHighlightJoints[k].name = name
    /\ \A k \in 1..Len(lastHighlightJoints) :
          lastHighlightJoints[k].name = name =>
              lastHighlightJoints[k].x = x /\ lastHighlightJoints[k].y = y

\* the persisted state holds the marker called name at alpha*j + (1-alpha)*p
StoredBlend(name, j, p) ==
    /\ \E k \in 1..Len(lastHighlightJoints) : lastHighlightJoints[k].name = name
    /\ \A k \in 1..Len(lastHighlightJoints) :
          lastHighlightJoints[k].name = name =>
              /\ AlphaDen * lastHighlightJoints[k].x
                    = AlphaNum * j.x + (AlphaDen - AlphaNum) * p.x
              /\ AlphaDen * lastHighlightJoints[k].y
                    = AlphaNum * j.y + (AlphaDen - AlphaNum) * p.y

\* C1: at most one /process_frame request is outstanding in every reachable
\* state, and a call of startProcessing made while a request is outstanding
\* (an animation-frame tick or a 'loadedmetadata' call) issues no request and
\* queues none: the outstanding requests are the same after it.
C1_AtMostOneInFlight ==
    /\ [](Len(inFlight) \in {0, 1})
    /\ [][ (Len(inFlight) >= 1 /\ lastOp' \in TickOps \cup {"loadedmetadata"})
              => inFlight' = inFlight ]_vars

\* a tick has just run while a request was outstanding, and issued nothing
C1_Witness ==
    lastOp = "tickSkip" /\ Len(inFlight) = 1 /\ isProcessingFrame

\* C2: every settlement of an issued request (success, error field, body that
\* does not decode, transport failure) leaves isProcessingFrame false, and a
\* tick that runs with streaming active and the flag clear, as the first tick
\* after a settlement does, starts a capture cycle (sets the flag).
C2_SettlementClearsFlag ==
    [][ /\ lastOp' \in SettleOps => ~isProcessingFrame'
        /\ (lastOp' \in TickOps /\ isStreaming /\ ~isProcessingFrame)
              => isProcessingFrame' ]_vars

\* a failed cycle has just settled with the loop still running
C2_Witness ==
    /\ lastOp \in FailedSettleOps
    /\ isStreaming /\ rafPending # {} /\ ~isProcessingFrame

\* C3: a tick that runs while streaming is active always reschedules itself:
\* after it, the callback named by animationFrameId is pending, whatever
\* happened to the capture cycle it started.
C3_TickAlwaysReschedules ==
    lastOp \in {"tickSkip", "tickCapture", "tickThrow"}
        => animationFrameId \in rafPending

\* C4: a response that carries an error field sets the status text to the
\* error and leaves lastHighlightJoints as it was before the cycle; so does a
\* cycle that fails by transport error or by a body that does not decode
\* (marker state).
C4_ErrorFieldFailsCycle ==
    /\ lastOp = "settleErrorField" =>
          /\ lastHighlightJoints = preJoints
          /\ Len(poseStatus) = 2 /\ poseStatus[1] = "Error: "
    /\ lastOp \in {"settleTransport", "settleBadJson"} =>
          lastHighlightJoints = preJoints

\* C5: after an update, a marker of newMarkers whose name is in the previous
\* state and whose pixel distance to that entry is below the snap radius is
\* stored at the previous position; at a distance of exactly the snap radius
\* it is not stored at the previous position.
C5_Deadband ==
    lastOp = "update" =>
        \A i \in 1..Len(updArg) : \A k \in 1..Len(preJoints) :
            preJoints[k].name = updArg[i].name =>
                /\ PixelDistSq(updArg[i], preJoints[k], canvasSize) < SnapSq
                      => StoredAt(updArg[i].name, preJoints[k].x, preJoints[k].y)
                /\ PixelDistSq(updArg[i], preJoints[k], canvasSize) = SnapSq
                      => ~StoredAt(updArg[i].name, preJoints[k].x, preJoints[k].y)

\* one update in which a marker that moved by less than the radius kept its
\* previous position and another moved by exactly the radius
C5_Witness ==
    /\ lastOp = "update"
    /\ \E i \in 1..Len(updArg) : \E k \in 1..Len(preJoints) :
          /\ preJoints[k].name = updArg[i].name
          /\ PixelDistSq(updArg[i], preJoints[k], canvasSize) > 0
          /\ PixelDistSq(updArg[i], preJoints[k], canvasSize) < SnapSq
          /\ StoredAt(updArg[i].name, preJoints[k].x, preJoints[k].y)
    /\ \E i \in 1..Len(updArg) : \E k \in 1..Len(preJoints) :
          /\ preJoints[k].name = updArg[i].name
          /\ PixelDistSq(updArg[i], preJoints[k], canvasSize) = SnapSq

\* C6: after an update, a marker of newMarkers whose name is in the previous
\* state and whose pixel distance to that entry is at least the snap radius is
\* stored, under its name, at 0.3 * new + 0.7 * previous in x and in y.
C6_Blend ==
    lastOp = "update" =>
        \A i \in 1..Len(updArg) : \A k \in 1..Len(preJoints) :
            ( /\ preJoints[k].name = updArg[i].name
              /\ PixelDistSq(updArg[i], preJoints[k], canvasSize) >= SnapSq )
            => StoredBlend(updArg[i].name, updArg[i], preJoints[k])

\* an update blended a marker that moved in x and in y by more than the radius
C6_Witness ==
    /\ lastOp = "update"
    /\ \E i \in 1..Len(updArg) : \E k \in 1..Len(preJoints) :
          /\ preJoints[k].name = updArg[i].name
          /\ updArg[i].x # preJoints[k].x /\ updArg[i].y # preJoints[k].y
          /\ PixelDistSq(updArg[i], preJoints[k], canvasSize) > SnapSq
          /\ StoredBlend(updArg[i].name, updArg[i], preJoints[k])

\* C7: a successful response whose highlight_joints is empty or absent leaves
\* lastHighlightJoints empty, whatever it was, and a capture made while it is
\* empty draws no marker on the frame.
C7_Clearing ==
    /\ (lastOp = "settleOk" /\ updArg = << >>) => lastHighlightJoints = << >>
    /\ (lastOp = "tickCapture" /\ lastHighlightJoints = << >>)
          => inFlight[Len(inFlight)].drawn = << >>

\* a response without markers has just emptied a non-empty persisted state
C7_Witness ==
    /\ lastOp = "settleOk" /\ updArg = << >>
    /\ preJoints # << >> /\ lastHighlightJoints = << >>

\* C8: after an update, a marker of newMarkers whose name has no entry in the
\* previous state is stored with exactly its name, x and y.
C8_NewLandmark ==
    lastOp = "update" =>
        \A i \in 1..Len(updArg) :
            (\A k \in 1..Len(preJoints) : preJoints[k].name # updArg[i].name)
            => StoredAt(updArg[i].name, updArg[i].x, updArg[i].y)

\* an update adopted a landmark that is new, away from the origin, while the
\* previous state held another landmark
C8_Witness ==
    /\ lastOp = "update" /\ preJoints # << >>
    /\ \E i \in 1..Len(updArg) :
          /\ \A k \in 1..Len(preJoints) : preJoints[k].name # updArg[i].name
          /\ updArg[i].x > 0
          /\ StoredAt(updArg[i].name, updArg[i].x, updArg[i].y)

\* C9: an update whose newMarkers equals the persisted state leaves the
\* persisted state unchanged, on the first application and on every further
\* one.
C9_Idempotence ==
    (lastOp = "update" /\ updArg = preJoints)
        => lastHighlightJoints = preJoints

\* an update with two markers equal to the persisted ones has been applied
C9_Witness ==
    /\ lastOp = "update" /\ updArg = preJoints /\ Len(updArg) = 2
    /\ lastHighlightJoints = updArg

C11_ExactlyTheNewMarkers ==
    (lastOp = "update" /\ updArg # << >>) =>
        /\ Len(lastHighlightJoints) = Len(updArg)
        /\ \A i \in 1..Len(updArg) :
              lastHighlightJoints[i].name = updArg[i].name
        /\ \A k \in 1..Len(preJoints) :
              (\A i \in 1..Len(updArg) : updArg[i].name # preJoints[k].name)
              => \A m \in 1..Len(lastHighlightJoints) :
                    lastHighlightJoints[m].name # preJoints[k].name

\* an update with one marker has dropped the other landmark of the previous
\* state
C11_Witness ==
    /\ lastOp = "update" /\ Len(updArg) = 1 /\ Len(preJoints) = 2
    /\ Len(lastHighlightJoints) = 1
    /\ lastHighlightJoints[1].name = updArg[1].name

\* the count of the window that closed last; before any has closed, the
\* value fps is declared with
WindowFps == IF tickLog.completed = 0 THEN InitialFps ELSE tickLog.completed

\* C12 as stated: the fps a request carries is the number of ticks counted in
\* the one-second window completed last.
C12_FpsIsWindowCount ==
    [][Len(inFlight') > Len(inFlight) =>
          /\ tickLog'.completed # 0
          /\ inFlight'[Len(inFlight')].fps = tickLog'.completed]_vars

\* C12, amended: the fps a request carries is the number of ticks counted in
\* the window completed last, or 30 while no window has completed; every tick
\* increments the counter, the tick that closes a window sets fps to the
\* counter and resets counter and window start, and no other tick changes
\* fps.
C12_FpsIsWindowCountOrInitial ==
    /\ [](/\ fps = WindowFps
          /\ frameCount = tickLog.ticks
          /\ sinceLastTime = tickLog.elapsed)
    /\ [][Len(inFlight') > Len(inFlight) =>
             inFlight'[Len(inFlight')].fps = WindowFps']_vars

\* a request carries the count of a window of two ticks
C12_Witness ==
    /\ lastOp = "tickCapture"
    /\ tickLog.completed = 2
    /\ inFlight[Len(inFlight)].fps = 2

\* C13: while streaming, at most one startProcessing callback is pending at
\* any time, whatever the sequence of startSession and stopSession calls.
C13_OneTickPending == isStreaming => Cardinality(rafPending) <= 1

\* C14: when a startSession call has ended in its error path, and no other
\* call is under way, isStreaming and sessionActive are false and no tick
\* loop is running or can be started by a 'loadedmetadata' still to come.
C14_FailedStartRetainsNothing ==
    (lastOp \in {"cameraDenied", "startRejected"}
       /\ startAwaitCamera = 0 /\ startAwaitFetch = 0)
    => (~isStreaming /\ ~sessionActive /\ rafPending = {} /\ ~metadataPending)

\* C15: from the stopSession call that sets isStreaming to false until a
\* startSession call sets it to true again, no step starts a capture cycle,
\* issues a request or schedules a callback, and a tick that runs leaves
\* one pending callback fewer.
C15_StopHaltsLoop ==
    [][(~isStreaming /\ ~isStreaming') =>
          /\ Len(inFlight') <= Len(inFlight)
          /\ (isProcessingFrame' => isProcessingFrame)
          /\ Cardinality(rafPending') <= Cardinality(rafPending)
          /\ (lastOp' \in TickOps =>
                /\ lastOp' = "tickIdle"
                /\ Cardinality(rafPending') < Cardinality(rafPending)
                /\ frameCount' = frameCount)]_vars

\* a callback that stopSession did not cancel has run after the stop and
\* has done nothing
C15_Witness ==
    /\ lastOp = "tickIdle"
    /\ ~isStreaming
    /\ stopAwaitFetch > 0
    /\ rafPending = {}

\* C16: a response that settles after the session that issued its request
\* was stopped changes neither the pose status text nor lastHighlightJoints.
\* Requests are issued only while isStreaming is true and only stopSession
\* sets it to false, so a request that settles while it is false was issued
\* in a session stopped since.
C16_LateResultIgnored ==
    [][(lastOp' \in SettleOps /\ ~isStreaming) =>
          /\ poseStatus' = poseStatus
          /\ lastHighlightJoints' = lastHighlightJoints]_vars

\* C17: lastHighlightJoints is changed by nothing but the update run on a
\* successful response: after a tick, a settlement of a failed cycle (transport
\* error, undecodable body, error field), a step of startSession or a step of
\* stopSession it has the value it had before the step.
C17_OnlyUpdateOnSuccessWrites ==
    lastOp # "settleOk" => lastHighlightJoints = preJoints

\* C18: with every incoming coordinate in [0,1], every coordinate stored in
\* lastHighlightJoints lies in [0,1] in every reachable state; pixel values,
\* which reach the surface's width and height, are never stored.
C18_StoredCoordinatesNormalized ==
    \A i \in 1..Len(lastHighlightJoints) :
        /\ 0 <= lastHighlightJoints[i].x /\ lastHighlightJoints[i].x <= CoordDen
        /\ 0 <= lastHighlightJoints[i].y /\ lastHighlightJoints[i].y <= CoordDen

\* an update has blended a marker stored at 0 with an input at the edge 1.0
C18_Witness ==
    /\ lastOp = "update"
    /\ \E i \in 1..Len(updArg), k \in 1..Len(preJoints) :
          /\ preJoints[k].name = updArg[i].name
          /\ preJoints[k].x = 0 /\ updArg[i].x = CoordDen
          /\ lastHighlightJoints[i].x * AlphaDen = AlphaNum * CoordDen

\* C19: results are applied in issue order.  inFlight holds the outstanding
\* requests in the order of their issue; the request whose result is applied,
\* or whose failure is handled, is always the one issued first.
C19_AppliedInIssueOrder ==
    [][lastOp' \in SettleOps =>
          (inFlight # << >> /\ inFlight' = Tail(inFlight))]_vars

\* a result is applied after an earlier one has left markers behind
C19_Witness ==
    /\ lastOp = "settleOk"
    /\ preJoints # << >>
    /\ lastHighlightJoints # preJoints
    /\ inFlight = << >>

\* an update moved the marker stored under the name of updArg[i]
Blended(i) ==
    \E k \in 1..Len(preJoints) :
        /\ preJoints[k].name = updArg[i].name
        /\ lastHighlightJoints[i] # preJoints[k]

\* C20: with the same non-empty marker sequence applied again and again on a
\* surface of fixed size, every update that moves a marker brings it closer
\* to its input, by the factor 0.7 in either offset; an update that leaves
\* the state as it was has every marker at a pixel distance below the snap
\* radius from its input; and from some call on the state no longer changes.
C20_Convergence ==
    /\ []((lastOp = "update" /\ updArg # << >>) =>
            /\ \A i \in 1..Len(updArg) : \A k \in 1..Len(preJoints) :
                  (preJoints[k].name = updArg[i].name /\ Blended(i)) =>
                      /\ PixelDistSq(lastHighlightJoints[i], updArg[i], canvasSize)
                           < PixelDistSq(preJoints[k], updArg[i], canvasSize)
                      /\ AlphaDen * (lastHighlightJoints[i].x - updArg[i].x)
                           = (AlphaDen - AlphaNum) * (preJoints[k].x - updArg[i].x)
                      /\ AlphaDen * (lastHighlightJoints[i].y - updArg[i].y)
                           = (AlphaDen - AlphaNum) * (preJoints[k].y - updArg[i].y)
            /\ lastHighlightJoints = preJoints =>
                  \A i \in 1..Len(updArg) :
                      PixelDistSq(lastHighlightJoints[i], updArg[i], canvasSize)
                          < SnapSq)
    /\ <>[][lastHighlightJoints' = lastHighlightJoints]_vars

\* a marker has come to rest inside the deadband, short of its input at the
\* edge 1.0, at a position it can only have reached by blending twice from 0
C20_Witness ==
    /\ lastOp = "update"
    /\ lastHighlightJoints = preJoints
    /\ \E i \in 1..Len(updArg) :
          /\ updArg[i].x = CoordDen
          /\ lastHighlightJoints[i].x = 51

====
